---- MODULE Spec2Model ----
(***************************************************************************)
(* Model of github.com/HotPotatoC/snowflake (snowflake.go): the process-   *)
(* wide epoch, the wall clock, the generators ID and ID2 with their        *)
(* NextID state machine under the per-instance mutex, and the codec used   *)
(* by NextID, Parse and Parse2.                                            *)
(*                                                                         *)
(* A uint64 is modelled as the set of positions (0 = least significant)    *)
(* of its bits that are 1, so shifts, masks and ORs are computed bit by    *)
(* bit at the width of the Go type.                                        *)
(***************************************************************************)
EXTENDS Integers, Sequences, FiniteSets, TLC

\* ---------------------------------------------------------------- constants

discriminatorBits == 10

sequenceBits == 12

maxDiscriminatorBits == 1023

maxDiscriminatorHalfBits == 31

maxSeqBits == 4095

\* width of uint64 / int64
WordBits == 64

\* ------------------------------------------------------------------- bounds

\* wall-clock readings range over 0..MaxClock (milliseconds, Unix time)
MaxClock == 2

\* number of NextID calls started in the call-bounded specifications
MaxCalls == 3

\* caller threads of the call-bounded specifications
NThreads == 2

\* wall-clock readings of the unbounded-call specification: 0..LongClock
LongClock == 2

\* NextID calls started in the two-instance specification
TwoCalls == 2

\* wall-clock readings of the two-instance specification: 0..TwoClock
TwoClock == 1

\* returned identifiers remembered by the unbounded-call specification
LongKeep == 1

\* NextID calls started in the specification with fairness
FairCalls == 2

\* wall-clock readings of the specification with fairness: 0..FairClock
FairClock == 1

\* calls of SetEpoch and Epoch remembered by the specification of these
\* functions
ApiKeep == 3

\* wall-clock readings of that specification, and of the specification of
\* Parse and Parse2: 0..ApiClock
ApiClock == 1

\* calls of Parse and Parse2 remembered by the specification of Parse and
\* Parse2
ParseKeep == 2

\* NextID calls started in the specification of SetEpoch called while
\* other goroutines read the epoch
RaceCalls == 1

\* calls of Epoch, Parse and Parse2 remembered by that specification
RaceKeep == 1

\* calls of Parse and Parse2 remembered by the specification that gives
\* both the same identifiers
DecodeKeep == 1

\* --------------------------------------------------------------- uint64 math

\* the bits of a natural number below 2^31
Bits(n) == {i \in 0..30 : (n \div (2^i)) % 2 = 1}

\* uint64(n) of an int64 n (two's complement for a negative n)
ToUint64(n) == IF n >= 0 THEN Bits(n) ELSE (0..(WordBits - 1)) \ Bits(-n - 1)

\* w << k at 64 bits: bits shifted past bit 63 are dropped
Shl(w, k) == {i + k : i \in {j \in w : j + k < WordBits}}

\* w >> k (logical)
Shr(w, k) == {i - k : i \in {j \in w : j >= k}}

And(a, b) == a \cap b

Or(a, b) == a \cup b

\* the number a word stands for (words below 2^31)
Val(w) ==
  LET b(i) == IF i \in w THEN 2^i ELSE 0
  IN   b(0) + b(1) + b(2) + b(3) + b(4) + b(5) + b(6) + b(7)
     + b(8) + b(9) + b(10) + b(11) + b(12) + b(13) + b(14) + b(15)
     + b(16) + b(17) + b(18) + b(19) + b(20) + b(21) + b(22) + b(23)
     + b(24) + b(25) + b(26) + b(27) + b(28) + b(29) + b(30)

\* the addition is carried out on limbs of LimbBits bits
LimbBits == 22

\* limb k of a word, as a number
Limb(w, k) ==
  Val({i - k * LimbBits :
         i \in {j \in w : k * LimbBits <= j /\ j < (k + 1) * LimbBits}})

\* a + b at 64 bits (uint64, or int64 in two's complement): the carry out
\* of bit 63 is dropped
Add(a, b) ==
  LET s0 == Limb(a, 0) + Limb(b, 0)
      s1 == Limb(a, 1) + Limb(b, 1) + (s0 \div 2^LimbBits)
      s2 == Limb(a, 2) + Limb(b, 2) + (s1 \div 2^LimbBits)
  IN Or(Or(Bits(s0 % 2^LimbBits),
           Shl(Bits(s1 % 2^LimbBits), LimbBits)),
        Shl(Bits(s2 % 2^LimbBits), 2 * LimbBits))

\* the word written as a sequence of hexadecimal digits, most significant
\* first
Hex(digits) ==
  UNION {{4 * (Len(digits) - k) + i : i \in Bits(digits[k])} :
           k \in 1..Len(digits)}

\* a < b as unsigned 64-bit numbers
Less(a, b) == /\ a # b
              /\ LET d == (a \ b) \cup (b \ a)
                     top == CHOOSE i \in d : \A j \in d : j <= i
                 IN top \in b

Leq(a, b) == a = b \/ Less(a, b)

\* -------------------------------------------------------------------- state

VARIABLES
  clock,     \* the wall clock: milliseconds since the default epoch
  epoch,     \* the process-wide epoch, on the same scale (default 0)
  gen,       \* the generator instances: gen[g] is an ID or an ID2
  thr,       \* the caller threads: position in NextID and its locals
  returned,  \* history: the NextID calls that returned, oldest first
  run,       \* history: run[g] counts the calls since the last call of g
             \* whose clock reading differed from elapsedTime (-1: none yet)
  log,       \* history: the calls of SetEpoch, Epoch, Parse and Parse2 with
             \* their results, oldest first
  setting    \* the SetEpoch call that has reached its assignment epoch = e
             \* and has not returned: its argument, the epoch it found and
             \* the words of epoch it has stored

vars == <<clock, epoch, gen, thr, returned, run, log, setting>>

\* New returns &ID{discriminator: discriminator, lastID: 0}
New(discriminator) ==
  [kind |-> "ID", mtx |-> FALSE, discriminator |-> discriminator,
   sequence |-> 0, elapsedTime |-> 0, lastID |-> 0]

\* New2 returns &ID2{discriminator1: ..., discriminator2: ...}
New2(discriminator1, discriminator2) ==
  [kind |-> "ID2", mtx |-> FALSE, discriminator1 |-> discriminator1,
   discriminator2 |-> discriminator2, sequence |-> 0, elapsedTime |-> 0]

\* a thread outside NextID
Idle == [pc |-> "idle", g |-> 0, nowSinceEpoch |-> 0, last |-> 0,
         ret |-> {}, reads |-> {}, began |-> 0, first |-> 0,
         exhausted |-> FALSE]

\* -------------------------------------------------------------------- codec

\* msSinceEpoch: time.Since(epoch).Nanoseconds() / 1e6
msSinceEpoch == clock - epoch

\* EncodeID with an out-of-range discriminator masked to its low 10 bits
\* instead of being reset
EncodeID_Truncating(elapsedTime, discriminator, sequence) ==
  Or(Or(Shl(ToUint64(elapsedTime), sequenceBits + discriminatorBits),
        Shl(And(ToUint64(discriminator), ToUint64(maxDiscriminatorBits)),
            sequenceBits)),
     ToUint64(sequence))

\* EncodeID without the reset of an out-of-range discriminator
EncodeID_NoReset(elapsedTime, discriminator, sequence) ==
  Or(Or(Shl(ToUint64(elapsedTime), sequenceBits + discriminatorBits),
        Shl(ToUint64(discriminator), sequenceBits)),
     ToUint64(sequence))

\* EncodeID with the timestamp shifted one bit further
EncodeID_Shift23(elapsedTime, discriminator, sequence) ==
  Or(Or(Shl(ToUint64(elapsedTime), sequenceBits + discriminatorBits + 1),
        IF discriminator > maxDiscriminatorBits THEN {}
        ELSE Shl(ToUint64(discriminator), sequenceBits)),
     ToUint64(sequence))

\* the return expression of ID.NextID
EncodeID(elapsedTime, discriminator, sequence) ==
  LET timestampSegment ==
        Shl(ToUint64(elapsedTime), sequenceBits + discriminatorBits)
      discriminatorSegment ==
        IF discriminator > maxDiscriminatorBits
        THEN {}
        ELSE Shl(ToUint64(discriminator), sequenceBits)
      sequenceSegment == ToUint64(sequence)
  IN Or(Or(timestampSegment, discriminatorSegment), sequenceSegment)

\* EncodeID2 with the second discriminator shifted like the first
EncodeID2_SameShift(elapsedTime, discriminator1, discriminator2, sequence) ==
  Or(Or(Or(Shl(ToUint64(elapsedTime), sequenceBits + discriminatorBits),
           IF discriminator2 > maxDiscriminatorHalfBits THEN {}
           ELSE Shl(ToUint64(discriminator2), sequenceBits)),
        IF discriminator1 > maxDiscriminatorHalfBits THEN {}
        ELSE Shl(ToUint64(discriminator1), sequenceBits)),
     ToUint64(sequence))

\* the return expression of ID2.NextID
EncodeID2(elapsedTime, discriminator1, discriminator2, sequence) ==
  LET timestampSegment ==
        Shl(ToUint64(elapsedTime), sequenceBits + discriminatorBits)
      discriminator1Segment ==
        IF discriminator1 > maxDiscriminatorHalfBits
        THEN {}
        ELSE Shl(ToUint64(discriminator1), sequenceBits)
      discriminator2Segment ==
        IF discriminator2 > maxDiscriminatorHalfBits
        THEN {}
        ELSE Shl(ToUint64(discriminator2),
                 sequenceBits + (discriminatorBits \div 2))
      sequenceSegment == ToUint64(sequence)
  IN Or(Or(Or(timestampSegment, discriminator2Segment),
           discriminator1Segment), sequenceSegment)

\* the identifier an instance returns from its stored fields
Encode(id) ==
  IF id.kind = "ID"
  THEN EncodeID(id.elapsedTime, id.discriminator, id.sequence)
  ELSE EncodeID2(id.elapsedTime, id.discriminator1, id.discriminator2,
                 id.sequence)

getDiscriminant(id) ==
  And(Shr(id, sequenceBits), ToUint64(maxDiscriminatorBits))

getFirstDiscriminant(id) ==
  And(Shr(id, sequenceBits), ToUint64(maxDiscriminatorHalfBits))

\* getSecondDiscriminant reading the bits of the first discriminator
getSecondDiscriminant_SameShift(id) ==
  And(Shr(id, sequenceBits), ToUint64(maxDiscriminatorHalfBits))

getSecondDiscriminant(id) ==
  And(Shr(id, sequenceBits + (discriminatorBits \div 2)),
      ToUint64(maxDiscriminatorHalfBits))

\* time.Date(2012, 3, 28, 0, 0, 0, 0, time.UTC) in Unix milliseconds:
\* 1332892800000 = 0x136569A1400
DefaultEpoch == Hex(<<1, 3, 6, 5, 6, 9, 10, 1, 4, 0, 0>>)

\* t.UnixNano()/1e6 of the instant t milliseconds after the default epoch
UnixMs(t) == Add(DefaultEpoch, ToUint64(t))

\* getTimestamp adding the default epoch whatever epoch is configured
getTimestamp_DefaultEpoch(id) ==
  Add(Shr(id, sequenceBits + discriminatorBits), DefaultEpoch)

\* int64(id >> 22) + epoch.UnixNano()/1e6: Unix milliseconds, an int64 (the
\* conversion keeps the 64 bits)
getTimestamp(id) ==
  Add(Shr(id, sequenceBits + discriminatorBits), UnixMs(epoch))

getSequence(id) == And(id, ToUint64(maxSeqBits))

Parse(sid) ==
  [Timestamp |-> getTimestamp(sid), Sequence |-> getSequence(sid),
   Discriminator |-> getDiscriminant(sid)]

Parse2(sid) ==
  [Timestamp |-> getTimestamp(sid), Sequence |-> getSequence(sid),
   Discriminator1 |-> getFirstDiscriminant(sid),
   Discriminator2 |-> getSecondDiscriminant(sid)]

\* ---------------------------------------------------------------- ID.NextID

\* a Lock that never blocks
LockFree_NoMutex(g) == TRUE

\* a Lock on one mutex shared by every instance
LockFree_Global(g) == \A h \in DOMAIN gen : ~gen[h].mtx

\* id.mtx.Lock() can return: the mutex is not held
LockFree(g) == ~gen[g].mtx

\* a comparison that never finds the same millisecond
SameMs_Never(nowSinceEpoch, elapsedTime) == FALSE

\* nowSinceEpoch == id.elapsedTime: same millisecond as last time
SameMs(nowSinceEpoch, elapsedTime) == nowSinceEpoch = elapsedTime

\* a sequence masked with the mask of the discriminator
NextSequence_WrongMask(sequence) ==
  Val(And(ToUint64(sequence + 1), ToUint64(maxDiscriminatorBits)))

\* (id.sequence + 1) & maxSeqBits
NextSequence(sequence) == Val(And(ToUint64(sequence + 1), ToUint64(maxSeqBits)))

\* a polling loop that stops in the millisecond it started in
KeepWaiting_Strict(ms, last) == ms < last

\* the loop condition of waitUntilNextMs: keep polling while ms <= last
KeepWaiting(ms, last) == ms <= last

\* NextID calls that were started: those that returned and those under way
Started == Len(returned) + Cardinality({t \in DOMAIN thr : thr[t].pc # "idle"})

\* thread t calls NextID of instance g (began: how many calls had returned)
Call(t, g) ==
  /\ thr[t].pc = "idle"
  /\ thr' = [thr EXCEPT ![t].pc = "lock", ![t].g = g,
                        ![t].began = Len(returned)]
  /\ UNCHANGED <<clock, epoch, gen, returned, run, log, setting>>

\* id.mtx.Lock() returns once the mutex is free, and holds it
Lock(t) ==
  /\ thr[t].pc = "lock"
  /\ LockFree(thr[t].g)
  /\ gen' = [gen EXCEPT ![thr[t].g].mtx = TRUE]
  /\ thr' = [thr EXCEPT ![t].pc = "read"]
  /\ UNCHANGED <<clock, epoch, returned, run, log, setting>>

\* nowSinceEpoch := msSinceEpoch()
ReadClock(t) ==
  /\ thr[t].pc = "read"
  /\ thr' = [thr EXCEPT ![t].pc = "check",
                        ![t].nowSinceEpoch = msSinceEpoch,
                        ![t].first = msSinceEpoch,
                        ![t].reads = {msSinceEpoch}]
  /\ UNCHANGED <<clock, epoch, gen, returned, run, log, setting>>

\* thread t read the millisecond of the last identifier of its instance,
\* and the instance has used the last sequence number
Exhausted(t) ==
  /\ thr[t].nowSinceEpoch = gen[thr[t].g].elapsedTime
  /\ gen[thr[t].g].sequence = maxSeqBits

\* the if / else on nowSinceEpoch == id.elapsedTime, up to the call of
\* waitUntilNextMs
CheckMs(t) ==
  /\ thr[t].pc = "check"
  /\ LET g == thr[t].g
         id == gen[g]
     IN IF SameMs(thr[t].nowSinceEpoch, id.elapsedTime)
        THEN /\ gen' = [gen EXCEPT ![g].sequence = NextSequence(id.sequence)]
             /\ thr' = [thr EXCEPT
                  ![t].pc = IF gen'[g].sequence = 0 THEN "wait" ELSE "store",
                  ![t].last = IF gen'[g].sequence = 0
                              THEN id.elapsedTime ELSE @,
                  ![t].exhausted = Exhausted(t)]
        ELSE /\ gen' = [gen EXCEPT ![g].sequence = 0]
             /\ thr' = [thr EXCEPT ![t].pc = "store",
                                     ![t].exhausted = Exhausted(t)]
  /\ run' = [run EXCEPT ![thr[t].g] =
               IF thr[t].nowSinceEpoch # gen[thr[t].g].elapsedTime THEN 0
               ELSE IF @ < 0 THEN @ ELSE @ + 1]
  /\ UNCHANGED <<clock, epoch, returned, log, setting>>

\* a wait that takes the millisecond after last without reading the clock
WaitUntilNextMs_NoPoll(t) ==
  /\ thr[t].pc = "wait"
  /\ thr' = [thr EXCEPT ![t].pc = "store",
                        ![t].nowSinceEpoch = thr[t].last + 1]
  /\ UNCHANGED <<clock, epoch, gen, returned, run, log, setting>>

\* waitUntilNextMs(last): one reading of the clock by the polling loop
WaitUntilNextMs(t) ==
  /\ thr[t].pc = "wait"
  /\ LET ms == msSinceEpoch
     IN IF KeepWaiting(ms, thr[t].last)
        THEN thr' = [thr EXCEPT ![t].reads = @ \cup {ms}]
        ELSE thr' = [thr EXCEPT ![t].pc = "store",
                                ![t].nowSinceEpoch = ms,
                                ![t].reads = @ \cup {ms}]
  /\ UNCHANGED <<clock, epoch, gen, returned, run, log, setting>>

\* id.elapsedTime = nowSinceEpoch, and the evaluation of the return value
Store(t) ==
  /\ thr[t].pc = "store"
  /\ LET g == thr[t].g
     IN /\ gen' = [gen EXCEPT ![g].elapsedTime = thr[t].nowSinceEpoch]
        /\ thr' = [thr EXCEPT ![t].pc = "unlock", ![t].ret = Encode(gen'[g])]
  /\ UNCHANGED <<clock, epoch, returned, run, log, setting>>

\* the timestamp bits of an identifier
TimestampBits(id) == Shr(id, sequenceBits + discriminatorBits)

\* how many identifiers with the timestamp bits of id instance g has
\* returned in a row, id included
SameTimestamp(g, id) ==
  LET earlier == {i \in 1..Len(returned) : returned[i].g = g}
  IN IF earlier = {} THEN 1
     ELSE LET prev == returned[CHOOSE i \in earlier :
                                 \A j \in earlier : j <= i]
          IN IF TimestampBits(prev.id) = TimestampBits(id)
             THEN prev.same + 1 ELSE 1

\* the entry the history keeps of a call that returns: the identifier, the
\* clock readings of the call (first: the reading of NextID itself),
\* whether the call found the sequence numbers exhausted, and the fields of
\* the instance when it returned
Entry(t) ==
  [g |-> thr[t].g, t |-> t, id |-> thr[t].ret, reads |-> thr[t].reads,
   first |-> thr[t].first, exhausted |-> thr[t].exhausted,
   began |-> thr[t].began, run |-> run[thr[t].g],
   same |-> SameTimestamp(thr[t].g, thr[t].ret),
   elapsedTime |-> gen[thr[t].g].elapsedTime,
   sequence |-> gen[thr[t].g].sequence]

\* the last keep elements of a sequence
LastOf(s, keep) ==
  IF Len(s) <= keep THEN s ELSE SubSeq(s, Len(s) - keep + 1, Len(s))

\* a return that leaves the mutex locked
Unlock_KeepsLock(t, keep) ==
  /\ thr[t].pc = "unlock"
  /\ returned' = LastOf(Append(returned, Entry(t)), keep)
  /\ thr' = [thr EXCEPT ![t] = Idle]
  /\ UNCHANGED <<clock, epoch, gen, run, log, setting>>

\* the deferred id.mtx.Unlock() and the return to the caller; the history
\* keeps the last keep calls
Unlock(t, keep) ==
  /\ thr[t].pc = "unlock"
  /\ gen' = [gen EXCEPT ![thr[t].g].mtx = FALSE]
  /\ returned' = LastOf(Append(returned, Entry(t)), keep)
  /\ thr' = [thr EXCEPT ![t] = Idle]
  /\ UNCHANGED <<clock, epoch, run, log, setting>>

\* -------------------------------------------------------------- environment

\* the wall clock advances (to at most max)
Tick(max) ==
  /\ \E c \in (clock + 1)..max : clock' = c
  /\ UNCHANGED <<epoch, gen, thr, returned, run, log, setting>>

\* the wall clock is set to any other reading, forward or backward
ClockJump(max) ==
  /\ \E c \in (0..max) \ {clock} : clock' = c
  /\ UNCHANGED <<epoch, gen, thr, returned, run, log, setting>>

\* a time.Time argument of SetEpoch: the instant ms milliseconds after the
\* default epoch
Instant(ms) == [isZero |-> FALSE, ms |-> ms]

\* the zero time.Time
ZeroTime == [isZero |-> TRUE, ms |-> 0]

\* no SetEpoch call is at its assignment
NotSetting == [pc |-> "idle", e |-> ZeroTime, old |-> 0, stored |-> {}]

\* e.After(now) with a comparison that also refuses the present instant
After_OrEqual(e, now) == e.ms >= now

\* e.After(now): e is strictly later than now
After(e, now) == e.ms > now

\* the history of the package-level calls after one more call: it keeps
\* the last keep calls, and with keep = 0 the call is not noted
Noted(call, keep) ==
  IF keep = 0 THEN log ELSE LastOf(Append(log, call), keep)

\* SetEpoch that assigns the epoch before it validates the argument
SetEpoch_AssignFirst(e, keep) ==
  /\ epoch' = e.ms
  /\ log' = Noted([op |-> "SetEpoch", e |-> e, now |-> clock,
                   err |-> IF e.isZero THEN "ErrEpochIsZero"
                           ELSE IF After(e, clock) THEN "ErrEpochFuture"
                                ELSE "nil"], keep)
  /\ UNCHANGED <<clock, gen, thr, returned, run, setting>>

\* SetEpoch(e) and the error it returns (now: the reading of time.Now())
SetEpoch(e, keep) ==
  /\ LET call == [op |-> "SetEpoch", e |-> e, now |-> clock]
         return(err) == log' = Noted(call @@ [err |-> err], keep)
     IN IF e.isZero
        THEN epoch' = epoch /\ return("ErrEpochIsZero")
        ELSE IF After(e, clock)
             THEN epoch' = epoch /\ return("ErrEpochFuture")
             ELSE epoch' = e.ms /\ return("nil")
  /\ UNCHANGED <<clock, gen, thr, returned, run, setting>>

\* milliseconds in a second
MsPerSecond == 1000

\* epoch is a time.Time, a struct of several machine words. Of an instant
\* without monotonic reading, as e.UTC() and time.Date return, the word ext
\* holds the whole seconds and the word wall the nanoseconds within the
\* second (here: milliseconds); the word loc is nil for UTC, in every epoch
Words == {"wall", "ext"}

Ext(ms) == ms \div MsPerSecond

Wall(ms) == ms % MsPerSecond

\* the time.Time whose word w is that of the instant new and whose other
\* word is that of the instant old
WithWord(old, w, new) ==
  IF w = "wall" THEN Ext(old) * MsPerSecond + Wall(new)
  ELSE Ext(new) * MsPerSecond + Wall(old)

\* SetEpoch(e) called while other goroutines read epoch, up to the
\* assignment: an argument that is refused leaves everything as it is
SetEpochBegin(e) ==
  /\ setting.pc = "idle"
  /\ IF e.isZero \/ After(e, clock)
     THEN setting' = setting
     ELSE setting' = [pc |-> "assign", e |-> e, old |-> epoch, stored |-> {}]
  /\ UNCHANGED <<clock, epoch, gen, thr, returned, run, log>>

\* epoch = e: the assignment of a struct is not atomic and nothing orders
\* it with the reads of epoch (a data race), so it is a store of each word,
\* in an order the build chooses, with the reads of the other goroutines in
\* between; SetEpoch returns after the last store
StoreWord(w) ==
  /\ setting.pc = "assign"
  /\ w \notin setting.stored
  /\ epoch' = WithWord(epoch, w, setting.e.ms)
  /\ setting' = IF setting.stored \cup {w} = Words THEN NotSetting
                ELSE [setting EXCEPT !.stored = @ \cup {w}]
  /\ UNCHANGED <<clock, gen, thr, returned, run, log>>

\* Epoch(): the configured epoch
Epoch == Instant(epoch)

\* a call of Epoch(); the history also notes the SetEpoch call under way
EpochCall(keep) ==
  /\ log' = Noted([op |-> "Epoch", out |-> Epoch, during |-> setting], keep)
  /\ UNCHANGED <<clock, epoch, gen, thr, returned, run, setting>>

\* a call of Parse(sid); the history also notes what Epoch() is at the call
\* and the SetEpoch call under way at that moment, if any
ParseCall(sid, keep) ==
  /\ log' = Noted([op |-> "Parse", sid |-> sid, epoch |-> Epoch,
                   out |-> Parse(sid), during |-> setting], keep)
  /\ UNCHANGED <<clock, epoch, gen, thr, returned, run, setting>>

\* a call of Parse2(sid)
Parse2Call(sid, keep) ==
  /\ log' = Noted([op |-> "Parse2", sid |-> sid, epoch |-> Epoch,
                   out |-> Parse2(sid), during |-> setting], keep)
  /\ UNCHANGED <<clock, epoch, gen, thr, returned, run, setting>>

\* ----------------------------------------------------------- specifications

\* discriminators given to New: the values of TestField and their neighbours
Discriminators == {0, 1, 1000, 1023, 1024, 1025}

\* discriminators of the two-instance specification: in range, and out of
\* range
TwoDiscriminators == {0, 1, 1025}

\* discriminators given to New2: the values of Test2Fields and neighbours
HalfDiscriminators == {1, 31, 32, 33}

\* an instance after sequence calls of NextID that all read the clock at
\* elapsedTime: how a generator in use looks when an observation starts
InUse(id, elapsedTime, sequence) ==
  [id EXCEPT !.elapsedTime = elapsedTime, !.sequence = sequence]

\* a fresh instance, or one whose sequence is about to be exhausted
Instances(fresh) == fresh \cup {InUse(id, 0, maxSeqBits - 1) : id \in fresh}

InitWith(gens, nthreads) ==
  /\ clock = 0
  /\ epoch = 0
  /\ gen \in gens
  /\ thr = [t \in 1..nthreads |-> Idle]
  /\ returned = <<>>
  /\ run = [g \in DOMAIN gen |-> -1]
  /\ log = <<>>
  /\ setting = NotSetting

\* Spec: one instance (the ID and the ID2 of the tests, fresh or in use),
\* NThreads callers, a clock that never goes back, the epoch left alone
Init == InitWith([{1} -> Instances({New(1), New2(1, 2)})], NThreads)

Next ==
  \/ \E t \in DOMAIN thr, g \in DOMAIN gen : Started < MaxCalls /\ Call(t, g)
  \/ \E t \in DOMAIN thr : Lock(t)
  \/ \E t \in DOMAIN thr : ReadClock(t)
  \/ \E t \in DOMAIN thr : CheckMs(t)
  \/ \E t \in DOMAIN thr : WaitUntilNextMs(t)
  \/ \E t \in DOMAIN thr : Store(t)
  \/ \E t \in DOMAIN thr : Unlock(t, MaxCalls)
  \/ Tick(MaxClock)

Spec == Init /\ [][Next]_vars

\* SpecFair: one ID, fresh or with its sequence numbers used up, NThreads
\* callers, a clock that never goes back, and the scheduling the runtime
\* gives. A thread inside NextID keeps being scheduled (goroutines are
\* preempted, so a polling loop cannot starve the others): weak fairness of
\* its steps. A goroutine blocked in sync.Mutex.Lock is handed the mutex
\* once it has waited too long (starvation mode), however often others take
\* it: strong fairness of Lock. The wall clock advances: weak fairness of
\* Tick.
InitFair == InitWith([{1} -> {New(1), InUse(New(1), 0, maxSeqBits)}], NThreads)

NextFair ==
  \/ \E t \in DOMAIN thr, g \in DOMAIN gen : Started < FairCalls /\ Call(t, g)
  \/ \E t \in DOMAIN thr : Lock(t)
  \/ \E t \in DOMAIN thr : ReadClock(t)
  \/ \E t \in DOMAIN thr : CheckMs(t)
  \/ \E t \in DOMAIN thr : WaitUntilNextMs(t)
  \/ \E t \in DOMAIN thr : Store(t)
  \/ \E t \in DOMAIN thr : Unlock(t, FairCalls)
  \/ Tick(FairClock)

Fairness ==
  /\ WF_vars(Tick(FairClock))
  /\ \A t \in 1..NThreads :
       /\ SF_vars(Lock(t))
       /\ WF_vars(\/ ReadClock(t)
                  \/ CheckMs(t)
                  \/ WaitUntilNextMs(t)
                  \/ Store(t)
                  \/ Unlock(t, FairCalls))

SpecFair == InitFair /\ [][NextFair]_vars /\ Fairness

\* SpecPair: two instances, the first an ID with its sequence numbers used
\* up in millisecond 0, the second a fresh ID (with the same discriminator)
\* or ID2, NThreads callers, and the scheduling of SpecFair except for the
\* clock, which may stand still for any length of time: a caller of the first
\* instance can stay in waitUntilNextMs for ever
InitPair ==
  InitWith({[g \in {1, 2} |-> IF g = 1 THEN a ELSE b] :
              a \in {InUse(New(1), 0, maxSeqBits)},
              b \in {New(1), New2(1, 2)}},
           NThreads)

FairnessPair ==
  \A t \in 1..NThreads :
    /\ SF_vars(Lock(t))
    /\ WF_vars(\/ ReadClock(t)
               \/ CheckMs(t)
               \/ WaitUntilNextMs(t)
               \/ Store(t)
               \/ Unlock(t, FairCalls))

\* the first thread calls the first instance, every other thread the second
NextPair ==
  \/ \E t \in DOMAIN thr :
       Started < FairCalls /\ Call(t, IF t = 1 THEN 1 ELSE 2)
  \/ \E t \in DOMAIN thr : Lock(t)
  \/ \E t \in DOMAIN thr : ReadClock(t)
  \/ \E t \in DOMAIN thr : CheckMs(t)
  \/ \E t \in DOMAIN thr : WaitUntilNextMs(t)
  \/ \E t \in DOMAIN thr : Store(t)
  \/ \E t \in DOMAIN thr : Unlock(t, FairCalls)
  \/ Tick(FairClock)

SpecPair == InitPair /\ [][NextPair]_vars /\ FairnessPair

\* SpecRollback: as Spec, with a wall clock that can also be set back
NextRollback ==
  \/ \E t \in DOMAIN thr, g \in DOMAIN gen : Started < MaxCalls /\ Call(t, g)
  \/ \E t \in DOMAIN thr : Lock(t)
  \/ \E t \in DOMAIN thr : ReadClock(t)
  \/ \E t \in DOMAIN thr : CheckMs(t)
  \/ \E t \in DOMAIN thr : WaitUntilNextMs(t)
  \/ \E t \in DOMAIN thr : Store(t)
  \/ \E t \in DOMAIN thr : Unlock(t, MaxCalls)
  \/ ClockJump(MaxClock)

SpecRollback == Init /\ [][NextRollback]_vars

\* SpecEpoch: as Spec, with SetEpoch called at any moment
NextEpoch ==
  \/ \E t \in DOMAIN thr, g \in DOMAIN gen : Started < MaxCalls /\ Call(t, g)
  \/ \E t \in DOMAIN thr : Lock(t)
  \/ \E t \in DOMAIN thr : ReadClock(t)
  \/ \E t \in DOMAIN thr : CheckMs(t)
  \/ \E t \in DOMAIN thr : WaitUntilNextMs(t)
  \/ \E t \in DOMAIN thr : Store(t)
  \/ \E t \in DOMAIN thr : Unlock(t, MaxCalls)
  \/ Tick(MaxClock)
  \/ \E e \in {ZeroTime} \cup {Instant(ms) : ms \in 0..MaxClock} : SetEpoch(e, 0)

SpecEpoch == Init /\ [][NextEpoch]_vars

\* SpecTwo: two ID instances with different discriminators, the first fresh
\* or in use, NThreads callers, any clock
InitTwo ==
  InitWith({f \in [{1, 2} -> Instances({New(d) : d \in TwoDiscriminators})] :
              /\ f[1].discriminator < f[2].discriminator
              /\ f[2].sequence = 0},
           NThreads)

NextTwo ==
  \/ \E t \in DOMAIN thr, g \in DOMAIN gen : Started < TwoCalls /\ Call(t, g)
  \/ \E t \in DOMAIN thr : Lock(t)
  \/ \E t \in DOMAIN thr : ReadClock(t)
  \/ \E t \in DOMAIN thr : CheckMs(t)
  \/ \E t \in DOMAIN thr : WaitUntilNextMs(t)
  \/ \E t \in DOMAIN thr : Store(t)
  \/ \E t \in DOMAIN thr : Unlock(t, TwoCalls)
  \/ ClockJump(TwoClock)

SpecTwo == InitTwo /\ [][NextTwo]_vars

\* SpecFields: one instance with any of the discriminators, one caller
InitFields ==
  InitWith([{1} -> Instances({New(d) : d \in Discriminators}
                             \cup {New2(d1, d2) : d1 \in HalfDiscriminators,
                                                  d2 \in HalfDiscriminators})],
           1)

SpecFields == InitFields /\ [][Next]_vars

\* SpecLong: one fresh instance and one caller, any number of calls, the
\* history keeping the last LongKeep of them
InitLong == InitWith([{1} -> {New(1), New2(1, 2)}], 1)

NextLong ==
  \/ \E t \in DOMAIN thr, g \in DOMAIN gen : Call(t, g)
  \/ \E t \in DOMAIN thr : Lock(t)
  \/ \E t \in DOMAIN thr : ReadClock(t)
  \/ \E t \in DOMAIN thr : CheckMs(t)
  \/ \E t \in DOMAIN thr : WaitUntilNextMs(t)
  \/ \E t \in DOMAIN thr : Store(t)
  \/ \E t \in DOMAIN thr : Unlock(t, LongKeep)
  \/ Tick(LongClock)

SpecLong == InitLong /\ [][NextLong]_vars

\* the identifier of TestParse: 1292053924173320192 = 0x11EE4C32CD001000
TestParseID ==
  Hex(<<1, 1, 14, 14, 4, 12, 3, 2, 12, 13, 0, 0, 1, 0, 0, 0>>)

\* the identifier of TestParse2Fields: 1292065108376162304 = 0x11EE565ED3701000
TestParse2ID ==
  Hex(<<1, 1, 14, 14, 5, 6, 5, 14, 13, 3, 7, 0, 1, 0, 0, 0>>)

\* identifiers given to Parse: that of the test, and the largest uint64
ParseInputs == {TestParseID, 0..(WordBits - 1)}

\* identifiers given to Parse2: that of the test, and the largest uint64
Parse2Inputs == {TestParse2ID, 0..(WordBits - 1)}

\* arguments of SetEpoch: the zero time, an instant before the default
\* epoch (as the 2010 of TestSetEpoch), every reading of the clock, and an
\* instant the clock never reaches (as the year 3000 of TestSetEpoch)
ApiInstants == {ZeroTime} \cup {Instant(ms) : ms \in (-1)..(ApiClock + 1)}

\* SpecApi: SetEpoch and Epoch called in any order while the clock advances
InitApi == InitWith([{1} -> {New(1)}], 1)

NextApi ==
  \/ \E e \in ApiInstants : SetEpoch(e, ApiKeep)
  \/ EpochCall(ApiKeep)
  \/ Tick(ApiClock)

SpecApi == InitApi /\ [][NextApi]_vars

\* SpecParse: Parse and Parse2 called on the identifiers, with SetEpoch
\* called at any moment, while the clock advances
NextParse ==
  \/ \E e \in ApiInstants : SetEpoch(e, 0)
  \/ \E sid \in ParseInputs : ParseCall(sid, ParseKeep)
  \/ \E sid \in Parse2Inputs : Parse2Call(sid, ParseKeep)
  \/ Tick(ApiClock)

SpecParse == InitApi /\ [][NextParse]_vars

\* identifiers given to both Parse and Parse2: those of the tests, the
\* largest uint64, the highest sequence bit, the lowest timestamp bit, the
\* highest discriminator bit, the whole discriminator field, and every
\* combination of the lowest bit of the field and the two bits where its
\* halves meet
DecodeInputs ==
  {TestParseID, TestParse2ID, 0..(WordBits - 1),
   {sequenceBits - 1}, {sequenceBits + discriminatorBits},
   {sequenceBits + discriminatorBits - 1},
   sequenceBits..(sequenceBits + discriminatorBits - 1)}
  \cup SUBSET {sequenceBits,
               sequenceBits + (discriminatorBits \div 2) - 1,
               sequenceBits + (discriminatorBits \div 2)}

\* SpecDecode: Parse and Parse2 called on the same identifiers, with
\* SetEpoch called at any moment
NextDecode ==
  \/ \E e \in {ZeroTime, Instant(-1), Instant(0)} : SetEpoch(e, 0)
  \/ \E sid \in DecodeInputs : ParseCall(sid, DecodeKeep)
  \/ \E sid \in DecodeInputs : Parse2Call(sid, DecodeKeep)

SpecDecode == InitApi /\ [][NextDecode]_vars

\* arguments of SetEpoch in SpecRace: the zero time, the default epoch, the
\* millisecond before it (in the second before), and an instant the clock
\* never reaches
RaceInstants == {ZeroTime, Instant(-1), Instant(0), Instant(ApiClock + 1)}

\* SpecRace: one goroutine calls SetEpoch while another calls Epoch, Parse
\* and Parse2 on the identifiers of the tests and a third NextID of an ID
\* with its sequence numbers used up, and the clock advances
InitRace == InitWith([{1} -> {InUse(New(1), 0, maxSeqBits)}], 1)

NextRace ==
  \/ \E t \in DOMAIN thr, g \in DOMAIN gen : Started < RaceCalls /\ Call(t, g)
  \/ \E t \in DOMAIN thr : Lock(t)
  \/ \E t \in DOMAIN thr : ReadClock(t)
  \/ \E t \in DOMAIN thr : CheckMs(t)
  \/ \E t \in DOMAIN thr : WaitUntilNextMs(t)
  \/ \E t \in DOMAIN thr : Store(t)
  \/ \E t \in DOMAIN thr : Unlock(t, RaceCalls)
  \/ \E e \in RaceInstants : SetEpochBegin(e)
  \/ \E w \in Words : StoreWord(w)
  \/ EpochCall(RaceKeep)
  \/ ParseCall(TestParseID, RaceKeep)
  \/ Parse2Call(TestParse2ID, RaceKeep)
  \/ Tick(ApiClock)

SpecRace == InitRace /\ [][NextRace]_vars

\* ------------------------------------------------------------------ claims

\* positions of the history
Calls == 1..Len(returned)

\* call j is the next call of the same instance to return after call i
NextCall(i, j) ==
  /\ i < j
  /\ returned[i].g = returned[j].g
  /\ \A k \in Calls : (i < k /\ k < j) => returned[k].g # returned[i].g

\* C1: with a clock that never goes back and the epoch left alone, NextID
\* calls of one instance made one after the other (each made after the
\* earlier one returned) return pairwise distinct values.
C1_SequentialDistinct ==
  \A i, j \in Calls :
    (i < j /\ returned[i].g = returned[j].g /\ returned[j].began >= i)
      => returned[i].id # returned[j].id

\* MaxCalls calls made one after the other have returned, two of them in one
\* millisecond and two in different milliseconds
C1_Witness ==
  /\ Len(returned) = MaxCalls
  /\ \A i \in Calls : returned[i].began = i - 1
  /\ \E i, j \in Calls :
       i < j /\ returned[i].elapsedTime = returned[j].elapsedTime
  /\ \E i, j \in Calls :
       i < j /\ returned[i].elapsedTime < returned[j].elapsedTime

\* C2: when several threads call NextID of one instance concurrently, the
\* values the calls returned are as many as the calls that returned: no
\* value is returned twice, under any interleaving.
C2_ConcurrentDistinct ==
  \A g \in DOMAIN gen :
    LET mine == {i \in Calls : returned[i].g = g}
    IN Cardinality({returned[i].id : i \in mine}) = Cardinality(mine)

\* all calls returned, to different threads, one of them made while an
\* earlier one was still under way
C2_Witness ==
  /\ Len(returned) = MaxCalls
  /\ \A t \in DOMAIN thr : thr[t].pc = "idle"
  /\ \E i, j \in Calls : returned[i].t # returned[j].t
  /\ \E i \in Calls : returned[i].began < i - 1

\* C3: with a clock that never goes back and the epoch left alone, each
\* value NextID returns is greater than or equal to the value the previous
\* call of that instance returned.
C3_NonDecreasing ==
  \A i, j \in Calls : NextCall(i, j) => Leq(returned[i].id, returned[j].id)

\* a call returned after the call that used the last sequence number of a
\* millisecond
C3_Witness ==
  \E i, j \in Calls :
    /\ NextCall(i, j)
    /\ returned[i].sequence = maxSeqBits
    /\ returned[j].sequence = 0

\* the 10-bit field New(d) encodes: d, or 0 when d is out of range
Field(d) == IF d <= 1023 THEN d ELSE 0

\* C4 as stated: identifiers of two instances made with different
\* discriminators (any uint64 values) never coincide.
C4_AnyDistinctDiscriminators ==
  \A i, j \in Calls :
    (returned[i].g # returned[j].g
       /\ gen[returned[i].g].discriminator # gen[returned[j].g].discriminator)
      => returned[i].id # returned[j].id

\* C4 as amended: identifiers of two instances whose discriminators encode
\* different 10-bit fields never coincide, whatever the clock does.
C4_DistinctFields ==
  \A i, j \in Calls :
    (returned[i].g # returned[j].g
       /\ Field(gen[returned[i].g].discriminator)
            # Field(gen[returned[j].g].discriminator))
      => returned[i].id # returned[j].id

\* two instances with different fields, one of them out of range, returned
\* identifiers with the same timestamp and the same sequence
C4_Witness ==
  \E i, j \in Calls :
    /\ returned[i].g # returned[j].g
    /\ gen[returned[i].g].discriminator = 1
    /\ gen[returned[j].g].discriminator = 1025
    /\ returned[i].elapsedTime = returned[j].elapsedTime
    /\ returned[i].sequence = returned[j].sequence

\* C5: whatever the clock does, the timestamp of each identifier (and the
\* stored elapsedTime) is never smaller than that of the identifier the
\* instance returned before.
C5_TimestampNeverDecreases ==
  \A i, j \in Calls :
    NextCall(i, j) =>
      /\ Leq(TimestampBits(returned[i].id), TimestampBits(returned[j].id))
      /\ returned[i].elapsedTime <= returned[j].elapsedTime

\* C6: whatever the clock does, no (timestamp, sequence) pair is emitted
\* twice by one instance.
C6_NoPairTwice ==
  \A i, j \in Calls :
    (i < j /\ returned[i].g = returned[j].g) =>
      ~ /\ TimestampBits(returned[i].id) = TimestampBits(returned[j].id)
        /\ getSequence(returned[i].id) = getSequence(returned[j].id)

\* C7: with SetEpoch succeeding between or during NextID calls and a clock
\* that never goes back, the timestamp and sequence bits of the identifiers
\* of one instance never decrease from one call to the next.
C7_MonotoneAcrossSetEpoch ==
  \A i, j \in Calls :
    NextCall(i, j) =>
      \/ Less(TimestampBits(returned[i].id), TimestampBits(returned[j].id))
      \/ /\ TimestampBits(returned[i].id) = TimestampBits(returned[j].id)
         /\ Leq(getSequence(returned[i].id), getSequence(returned[j].id))

\* C8: Parse(New(d).NextID()).Discriminator is d when d <= 1023 and 0 when
\* d > 1023, for every NextID call of the instance.
C8_DiscriminatorRoundTrip ==
  \A i \in Calls :
    gen[returned[i].g].kind = "ID" =>
      Parse(returned[i].id).Discriminator
        = ToUint64(IF gen[returned[i].g].discriminator <= 1023
                   THEN gen[returned[i].g].discriminator ELSE 0)

\* New(1025) returned an identifier with a timestamp and a sequence that are
\* not 0, and New(1023) would be parsed back as 1023
C8_Witness ==
  \E i \in Calls :
    /\ gen[returned[i].g].kind = "ID"
    /\ gen[returned[i].g].discriminator = 1025
    /\ returned[i].elapsedTime > 0
    /\ returned[i].sequence > 0
    /\ Parse(returned[i].id).Discriminator = {}

\* C9: Parse2(New2(d1, d2).NextID()) gives Discriminator1 = d1 if d1 <= 31
\* else 0 and Discriminator2 = d2 if d2 <= 31 else 0, each independently,
\* and the sequence and timestamp bits hold the sequence and the timestamp
\* alone.
C9_TwoDiscriminatorsRoundTrip ==
  \A i \in Calls :
    gen[returned[i].g].kind = "ID2" =>
      LET id2 == gen[returned[i].g]
          p == Parse2(returned[i].id)
      IN /\ p.Discriminator1
              = ToUint64(IF id2.discriminator1 <= 31
                         THEN id2.discriminator1 ELSE 0)
         /\ p.Discriminator2
              = ToUint64(IF id2.discriminator2 <= 31
                         THEN id2.discriminator2 ELSE 0)
         /\ p.Sequence = ToUint64(returned[i].sequence)
         /\ TimestampBits(returned[i].id) = ToUint64(returned[i].elapsedTime)

\* New2(31, 33) returned an identifier with a timestamp and a sequence that
\* are not 0: the first field is kept, the second reset
C9_Witness ==
  \E i \in Calls :
    /\ gen[returned[i].g].kind = "ID2"
    /\ gen[returned[i].g].discriminator1 = 31
    /\ gen[returned[i].g].discriminator2 = 33
    /\ returned[i].elapsedTime > 0
    /\ returned[i].sequence > 0
    /\ Parse2(returned[i].id).Discriminator1 = ToUint64(31)
    /\ Parse2(returned[i].id).Discriminator2 = {}

\* C10: a call whose clock reading differs from elapsedTime returns sequence
\* 0, and the k-th further call that reads the same millisecond returns
\* sequence k, for k <= 4095.
C10_SequenceCounts ==
  \A i \in Calls :
    (returned[i].run >= 0 /\ returned[i].run <= 4095)
      => getSequence(returned[i].id) = ToUint64(returned[i].run)

\* the 4095th further call of a millisecond returned, with the last
\* sequence number
C10_Witness ==
  \E i \in Calls :
    /\ returned[i].run = 4095
    /\ returned[i].sequence = maxSeqBits
    /\ returned[i].elapsedTime > 0

\* C11: the first NextID call on a freshly constructed generator (every
\* instance of SpecLong starts as New or New2 made it, and its one caller
\* begins the first call before any call returned) returns sequence 0,
\* whatever the clock reads, a reading of 0 ms since the epoch included.
C11_FirstCallSequenceZero ==
  \A i \in Calls : returned[i].began = 0 => getSequence(returned[i].id) = {}

\* positions of the history of the package-level calls
Log == 1..Len(log)

\* call i is a SetEpoch that had to be rejected: its argument is the zero
\* time, or strictly later than the clock read
Rejected(i) ==
  /\ log[i].op = "SetEpoch"
  /\ log[i].e.isZero \/ log[i].e.ms > log[i].now

\* C12: SetEpoch of the zero instant returns ErrEpochIsZero and SetEpoch of
\* an instant strictly later than the wall clock returns ErrEpochFuture, and
\* Epoch() returns the same after such a call as before it.
C12_RejectedKeepsEpoch ==
  /\ \A i \in Log :
       log[i].op = "SetEpoch" =>
         /\ log[i].e.isZero => log[i].err = "ErrEpochIsZero"
         /\ (~log[i].e.isZero /\ log[i].e.ms > log[i].now)
              => log[i].err = "ErrEpochFuture"
  /\ \A i, k \in Log :
       (/\ i < k
        /\ log[i].op = "Epoch"
        /\ log[k].op = "Epoch"
        /\ \A j \in (i + 1)..(k - 1) : Rejected(j))
         => log[k].out = log[i].out

\* with an epoch that is not the default one, Epoch() was called before and
\* after a SetEpoch of the zero time
C12_Witness ==
  /\ Len(log) = 3
  /\ log[1].op = "Epoch" /\ log[1].out # Instant(0)
  /\ log[2].op = "SetEpoch" /\ log[2].e.isZero
  /\ log[3].op = "Epoch"

\* call i is a SetEpoch that returned nil
Succeeded(i) == log[i].op = "SetEpoch" /\ log[i].err = "nil"

C16_TimestampFollowsEpoch ==
  \A i, k \in Log :
    (/\ i < k
     /\ log[i].op \in {"Parse", "Parse2"}
     /\ log[k].op = log[i].op
     /\ log[k].sid = log[i].sid)
      => /\ log[k].out.Timestamp
              = Add(log[i].out.Timestamp,
                    ToUint64(log[k].epoch.ms - log[i].epoch.ms))
         /\ log[k].out.Sequence = log[i].out.Sequence
         /\ [log[k].out EXCEPT !.Timestamp = {}]
              = [log[i].out EXCEPT !.Timestamp = {}]

\* the identifier of TestParse was parsed before and after a SetEpoch that
\* moved the epoch back, and the timestamps differ
C16_Witness ==
  /\ Len(log) = 2
  /\ log[1].op = "Parse" /\ log[1].sid = TestParseID
  /\ log[2].op = "Parse" /\ log[2].sid = TestParseID
  /\ log[2].epoch.ms < log[1].epoch.ms
  /\ log[2].out.Timestamp # log[1].out.Timestamp

\* the 5-bit field New2 encodes for d: d, or 0 when d is out of range
HalfField(d) == IF d <= 31 THEN d ELSE 0

\* the discriminator bits an instance puts in its identifiers: the field of
\* an ID, the two half fields of an ID2
DiscriminatorPart(id) ==
  IF id.kind = "ID"
  THEN ToUint64(Field(id.discriminator))
  ELSE Or(ToUint64(HalfField(id.discriminator1)),
          Shl(ToUint64(HalfField(id.discriminator2)), discriminatorBits \div 2))

\* C14 as stated: the timestamp occupies bits 63..23 of every identifier:
\* the identifier shifted right by 23 is the elapsedTime of the generator,
\* and bits 22..12 hold only the discriminator.
C14_TimestampFrom23 ==
  \A i \in Calls :
    /\ Shr(returned[i].id, sequenceBits + discriminatorBits + 1)
         = ToUint64(returned[i].elapsedTime)
    /\ And(Shr(returned[i].id, sequenceBits),
           ToUint64(2 * maxDiscriminatorBits + 1))
         = DiscriminatorPart(gen[returned[i].g])

\* C14 as amended: the timestamp occupies bits 63..22 of every identifier:
\* the identifier shifted right by 22 is the elapsedTime of the generator,
\* and bits 21..12 hold only the discriminator.
C14_TimestampFrom22 ==
  \A i \in Calls :
    /\ Shr(returned[i].id, sequenceBits + discriminatorBits)
         = ToUint64(returned[i].elapsedTime)
    /\ And(Shr(returned[i].id, sequenceBits), ToUint64(maxDiscriminatorBits))
         = DiscriminatorPart(gen[returned[i].g])

\* New(1023) returned an identifier in millisecond 1, with a sequence that
\* is not 0: bit 22 is the lowest bit of the timestamp
C14_Witness ==
  \E i \in Calls :
    /\ gen[returned[i].g].kind = "ID"
    /\ gen[returned[i].g].discriminator = maxDiscriminatorBits
    /\ returned[i].elapsedTime = 1
    /\ returned[i].sequence > 0
    /\ (sequenceBits + discriminatorBits) \in returned[i].id

\* C17: a NextID call that reads the millisecond of elapsedTime while the
\* sequence is 4095 does not go on to return before a reading strictly
\* greater than that millisecond; the identifier it returns has sequence 0
\* and that greater reading as its timestamp; and with a clock that never
\* goes back, an instance returns at most 4096 identifiers with one
\* timestamp.
C17_WaitsForNextMs ==
  /\ \A t \in DOMAIN thr :
       (thr[t].exhausted /\ thr[t].pc \in {"store", "unlock"})
         => thr[t].nowSinceEpoch > thr[t].first
  /\ \A i \in Calls :
       returned[i].exhausted =>
         /\ getSequence(returned[i].id) = ToUint64(0)
         /\ returned[i].elapsedTime > returned[i].first
         /\ returned[i].elapsedTime \in returned[i].reads
         /\ TimestampBits(returned[i].id) = ToUint64(returned[i].elapsedTime)
  /\ \A i \in Calls : returned[i].same <= maxSeqBits + 1

\* after 4096 identifiers of millisecond 1, the next call read millisecond
\* 1 again, waited, and returned in millisecond 2
C17_Witness ==
  \E i \in Calls :
    /\ returned[i].exhausted
    /\ returned[i].run = maxSeqBits + 1
    /\ returned[i].first = 1
    /\ returned[i].elapsedTime = 2
    /\ returned[i].same = 1

\* the threads between the return of Lock and the return of NextID of
\* instance g
Inside(g) ==
  {t \in DOMAIN thr :
     thr[t].g = g /\ thr[t].pc \in {"read", "check", "wait", "store", "unlock"}}

\* while thread t polls the clock in waitUntilNextMs, a step leaves the
\* sequence and the elapsedTime of its instance alone, returns no
\* identifier of that instance, and lets no other caller of it past Lock
WaitingAlone(t) ==
  thr[t].pc = "wait" =>
    LET g == thr[t].g
    IN /\ gen'[g].sequence = gen[g].sequence
       /\ gen'[g].elapsedTime = gen[g].elapsedTime
       /\ \/ returned' = returned
          \/ returned'[Len(returned')].g # g
       /\ \A u \in DOMAIN thr \ {t} :
            thr'[u].g = g => thr'[u].pc \in {"idle", "lock"}

\* C18: at most one thread at a time is between the lock acquisition and
\* the return of NextID of an instance, and while a caller busy-waits for
\* the next millisecond no other caller reads or changes the sequence or
\* the elapsedTime of that instance or obtains an identifier from it.
C18_MutualExclusion ==
  /\ [](\A g \in DOMAIN gen : Cardinality(Inside(g)) <= 1)
  /\ [][\A t \in DOMAIN thr : WaitingAlone(t)]_vars

\* one caller polls the clock in waitUntilNextMs while the other is blocked
\* in Lock on the same instance
C18_Witness ==
  \E t, u \in DOMAIN thr :
    /\ thr[t].pc = "wait"
    /\ thr[u].pc = "lock"
    /\ thr[u].g = thr[t].g

\* C19: with fair scheduling and a clock that goes on, every NextID call
\* eventually returns, on the normal path and on the path that waits for
\* the next millisecond; the mutex of an instance is eventually released
\* whenever it is held; and every thread blocked on the mutex eventually
\* gets its identifier.
C19_EveryCallReturns ==
  /\ \A t \in 1..NThreads : (thr[t].pc # "idle") ~> (thr[t].pc = "idle")
  /\ \A t \in 1..NThreads : (thr[t].pc = "lock") ~> (thr[t].pc = "unlock")
  /\ gen[1].mtx ~> ~gen[1].mtx

\* every call has returned, one of them after waiting for the next
\* millisecond and the other made while that call was under way
C19_Witness ==
  /\ Len(returned) = FairCalls
  /\ \A t \in DOMAIN thr : thr[t].pc = "idle"
  /\ ~gen[1].mtx
  /\ \E i \in Calls : returned[i].exhausted
  /\ \E i \in Calls : returned[i].began < i - 1

\* C20: with the epoch left alone and a timestamp within its width, every
\* identifier NextID returns is ts * 2^22 + disc * 2^12 + seq, where ts and
\* seq are the elapsedTime and the sequence of the instance after the call
\* and disc its discriminator bits (0 for a discriminator out of range);
\* so Parse gives back seq as Sequence and ts plus the epoch, in Unix
\* milliseconds, as Timestamp.
C20_IdentifierIsSum ==
  \A i \in Calls :
    LET ts == returned[i].elapsedTime
        seq == returned[i].sequence
        disc == Val(DiscriminatorPart(gen[returned[i].g]))
    IN /\ returned[i].id
            = ToUint64(ts * 2^(sequenceBits + discriminatorBits)
                         + disc * 2^sequenceBits + seq)
       /\ Parse(returned[i].id).Sequence = ToUint64(seq)
       /\ Parse(returned[i].id).Timestamp = UnixMs(ts + epoch)

\* an instance with discriminator bits 1000 or 1023 (New(1000), New(1023),
\* New2(31, 31)) returned an identifier in a millisecond that is not 0, with
\* a sequence that is not 0
C20_Witness ==
  \E i \in Calls :
    /\ returned[i].elapsedTime > 0
    /\ returned[i].sequence > 0
    /\ Val(DiscriminatorPart(gen[returned[i].g])) \in {1000, 1023}

\* the instance a thread that takes a step is calling NextID of (0: none)
Callee(t) == IF thr[t].pc = "idle" THEN thr'[t].g ELSE thr[t].g

\* a step of a NextID call leaves every field of every other instance as it
\* was
OthersUntouched ==
  \A t \in DOMAIN thr :
    thr'[t] # thr[t] =>
      \A h \in DOMAIN gen \ {Callee(t)} : gen'[h] = gen[h]

\* a caller at Lock whose instance is not locked can go on, whoever holds
\* the other instances
OwnLockOnly ==
  \A t \in DOMAIN thr :
    (thr[t].pc = "lock" /\ ~gen[thr[t].g].mtx) => ENABLED Lock(t)

\* C21: a NextID call on one instance leaves the sequence, the elapsedTime
\* and the discriminators of every other instance unchanged and never waits
\* for the lock of another instance: also while the clock stands still and a
\* caller of the first instance stays in its sequence-exhaustion wait, every
\* NextID call on the second instance returns.
C21_InstancesIndependent ==
  /\ [][OthersUntouched]_vars
  /\ []OwnLockOnly
  /\ \A t \in 1..NThreads :
       (thr[t].pc # "idle" /\ thr[t].g = 2) ~> (thr[t].pc = "idle")

\* a caller of the first instance is in waitUntilNextMs in millisecond 0,
\* holding the lock of that instance, and a call on the second instance has
\* returned to the other thread
C21_Witness ==
  \E t \in DOMAIN thr :
    /\ thr[t].pc = "wait" /\ thr[t].g = 1
    /\ gen[1].mtx /\ ~gen[2].mtx
    /\ clock = 0
    /\ \E i \in Calls : returned[i].g = 2 /\ returned[i].t # t

\* the complete epochs a read can observe while the SetEpoch call s is at
\* its assignment: the epoch the call found and its argument
Whole(s) == {s.old, s.e.ms}

\* C22: a read of the process-wide epoch that runs while a SetEpoch call
\* assigns it observes the complete old epoch or the complete new one: so
\* does Epoch(), so does the epoch getTimestamp adds in Parse and Parse2,
\* and so does the msSinceEpoch a NextID call is about to read.
C22_NoTornEpoch ==
  /\ \A i \in Log :
       (log[i].op = "Epoch" /\ log[i].during.pc = "assign")
         => log[i].out \in {Instant(ms) : ms \in Whole(log[i].during)}
  /\ \A i \in Log :
       (log[i].op \in {"Parse", "Parse2"} /\ log[i].during.pc = "assign")
         => log[i].out.Timestamp
              \in {Add(TimestampBits(log[i].sid), UnixMs(ms)) :
                     ms \in Whole(log[i].during)}
  /\ \A t \in DOMAIN thr :
       (thr[t].pc = "read" /\ setting.pc = "assign")
         => msSinceEpoch \in {clock - ms : ms \in Whole(setting)}

\* C23: for every 64-bit id, the single-field and the dual-field decoding
\* agree: what a call of Parse (of Parse2) returned and what Parse2 (Parse)
\* returns for the same id satisfy Discriminator = 32 * Discriminator2 +
\* Discriminator1, have equal Sequence and, while the configured epoch is
\* the one of the call, equal Timestamp.
C23_DecodingsAgree ==
  \A i \in Log :
    /\ log[i].op = "Parse" =>
         LET p == log[i].out
             q == Parse2(log[i].sid)
         IN /\ Val(p.Discriminator)
                 = 32 * Val(q.Discriminator2) + Val(q.Discriminator1)
            /\ p.Sequence = q.Sequence
            /\ log[i].epoch = Epoch => p.Timestamp = q.Timestamp
    /\ log[i].op = "Parse2" =>
         LET p == Parse(log[i].sid)
             q == log[i].out
         IN /\ Val(p.Discriminator)
                 = 32 * Val(q.Discriminator2) + Val(q.Discriminator1)
            /\ p.Sequence = q.Sequence
            /\ log[i].epoch = Epoch => p.Timestamp = q.Timestamp

\* Parse2 was called, under an epoch that is not the default one, on the
\* identifier of TestParse2Fields, which Parse decodes to the discriminator
\* 32 * 24 + 1
C23_Witness ==
  \E i \in Log :
    /\ log[i].op = "Parse2" /\ log[i].sid = TestParse2ID
    /\ log[i].epoch = Epoch /\ Epoch # Instant(0)
    /\ Val(log[i].out.Discriminator2) = 24
    /\ Val(log[i].out.Discriminator1) = 1
    /\ Val(Parse(log[i].sid).Discriminator) = 769

\* identifier id, of a call that took the clock readings reads, carries one
\* of these readings as its timestamp, and it is no more than the clock
\* reads now
ReadingOfTheCall(id, reads) ==
  \E r \in reads : r <= msSinceEpoch /\ TimestampBits(id) = ToUint64(r)

\* C24: with a clock that never goes back and the epoch left alone, the
\* timestamp of every identifier NextID returns is a clock reading taken
\* during that call, so it is not greater than what the clock reads when
\* the call returns (nor at any later moment), also for a call that waited
\* for the next millisecond.
C24_TimestampIsAReading ==
  /\ \A t \in DOMAIN thr :
       thr[t].pc = "unlock" => ReadingOfTheCall(thr[t].ret, thr[t].reads)
  /\ \A i \in Calls : ReadingOfTheCall(returned[i].id, returned[i].reads)

\* a call that found the sequence numbers of millisecond 0 used up has just
\* returned an identifier of the millisecond the clock reads, after polling
\* the clock in millisecond 0 and in a later one
C24_Witness ==
  \E i \in Calls :
    /\ i = Len(returned)
    /\ returned[i].exhausted
    /\ returned[i].first = 0
    /\ returned[i].elapsedTime = msSinceEpoch
    /\ msSinceEpoch > 0
    /\ Cardinality(returned[i].reads) >= 2

====
